---- MODULE Spec2Model ----
(***************************************************************************)
(* Model of the spec extraction and reconciliation pipeline of cldb:       *)
(*   - the Nikon Z term recognizer and record assembler                    *)
(*     (src/camera_lens_database/nikon_z.py),                              *)
(*   - the two run handlers: main (src/camera_lens_database/fetch.py) and  *)
(*     fetch (src/cldb/cli/fetch.py).                                      *)
(*                                                                         *)
(* Text is modelled by what the code does with it.  A name or an ID is a   *)
(* sequence of character codes, so that str.lower() and the ordering of    *)
(* strings are computed.  A spec-table value is a sequence of tokens: a    *)
(* maximal run of [0-9.] is one number token, every other character is a   *)
(* token of its own, so that the regular expressions are matched as        *)
(* written.  A keyword text is a sequence of tokens in which "," and " "   *)
(* are tokens and every other token is one word, so that split(", ") and   *)
(* ",".join() are computed.                                                *)
(***************************************************************************)
EXTENDS Integers, Sequences, FiniteSets, TLC

VARIABLES
    entry,        \* which run handler is running: "main" or "fetch"
    num_workers,  \* -j option (max_workers in main, num_workers in fetch)
    orig_data,    \* rows of the prior CSV, in file order: [Name, ID]
    lens_info,    \* the task list: [name, page]
    pc,           \* position of the run handler
    orig_id_map,  \* dict built from the prior CSV
    status,       \* per task: "pending", "running", "done"
    results,      \* per task: what the worker returned or raised
    specs,        \* the collected result list
    df,           \* the sorted table
    output,       \* what was written to the destination
    exit_code,    \* -1 while running, then 0 or 1
    run,          \* 1 for the first run, 2 for the run repeated on the same input
    first_output, \* what the first run wrote
    generated,    \* per task: the identifier generated for its record
    finished,     \* the tasks in the order they completed
    term,         \* the (key, value) given to the term recognizer
    recognized,   \* what recognize_nikon_z_term produced for it
    page,         \* the spec table given to the record assembler
    lens          \* what read_nikon_z_lens produced for it

vars == <<entry, num_workers, orig_data, lens_info, pc, orig_id_map, status,
          results, specs, df, output, exit_code, run, first_output,
          generated, finished, term, recognized, page, lens>>

runVars == <<entry, num_workers, orig_data, lens_info, pc, orig_id_map, status,
             results, specs, df, output, exit_code, run, first_output,
             generated, finished>>

termVars == <<term, recognized>>

pageVars == <<page, lens>>

(***************************************************************************)
(* Bounds                                                                  *)
(***************************************************************************)
MaxTasks == 2       \* length of the task list
MaxDistances == 2   \* distances listed in a generated minimum-focus-distance value
MaxCopies == 1      \* times a row can be repeated in a generated spec table

(***************************************************************************)
(* Characters and text                                                     *)
(***************************************************************************)
\* str.lower() on one character code (ASCII letters)
LowerChar(c) == IF c >= 65 /\ c <= 90 THEN c + 32 ELSE c

\* str.lower()
Lower(s) == [i \in 1..Len(s) |-> LowerChar(s[i])]

\* s < t for Python strings: lexicographic on code points
RECURSIVE StrLess(_, _)
StrLess(s, t) ==
    IF t = <<>> THEN FALSE
    ELSE IF s = <<>> THEN TRUE
    ELSE IF s[1] < t[1] THEN TRUE
    ELSE IF s[1] > t[1] THEN FALSE
    ELSE StrLess(Tail(s), Tail(t))

\* tokens of a spec-table value
Num(n) == [num |-> TRUE, v |-> n]
Ch(c) == [num |-> FALSE, v |-> c]
CH_m == Ch(109)
CH_SPACE == Ch(32)
CH_DASH == Ch(45)
CH_f == Ch(102)
CH_SLASH == Ch(47)
CH_COMMA == Ch(12289)   \* the ideographic comma that separates listed distances

(***************************************************************************)
(* Term recognizer: src/camera_lens_database/nikon_z.py                    *)
(***************************************************************************)
IDX_NAME == "IDX_NAME"
IDX_BRAND == "IDX_BRAND"
IDX_MOUNT == "IDX_MOUNT"
IDX_MIN_FOCAL_LENGTH == "IDX_MIN_FOCAL_LENGTH"
IDX_MAX_FOCAL_LENGTH == "IDX_MAX_FOCAL_LENGTH"
IDX_MIN_F_VALUE == "IDX_MIN_F_VALUE"
IDX_MAX_F_VALUE == "IDX_MAX_F_VALUE"
IDX_MIN_FOCUS_DISTANCE == "IDX_MIN_FOCUS_DISTANCE"

\* the labels of the spec table, romanized
KEY_KATASHIKI == "katashiki"                        \* 型式
KEY_SHOTEN_KYORI == "shoten-kyori"                  \* 焦点距離
KEY_SAITAN_SATSUEI_KYORI == "saitan-satsuei-kyori"  \* 最短撮影距離
KEY_SAISHO_SHIBORI == "saisho-shibori"              \* 最小絞り
KEY_SAIDAI_SHIBORI == "saidai-shibori"              \* 最大絞り
KEY_OTHER == "juryo"                                \* 質量, a label outside the grammar

TextOf(codes) == [i \in 1..Len(codes) |-> Ch(codes[i])]

\* "ニコン Z マウント" and "ニコン Zマウント"
MOUNT_TEXT_1 == TextOf(<<12491, 12467, 12531, 32, 90, 32, 12510, 12454, 12531, 12488>>)
MOUNT_TEXT_2 == TextOf(<<12491, 12467, 12531, 32, 90, 12510, 12454, 12531, 12488>>)
\* "ニコン F マウント", a type the table does not list
MOUNT_TEXT_F == TextOf(<<12491, 12467, 12531, 32, 70, 32, 12510, 12454, 12531, 12488>>)

NIKON_Z == <<78, 105, 107, 111, 110, 32, 90>>   \* "Nikon Z"
NIKON == <<78, 105, 107, 111, 110>>             \* "Nikon"

\* _mount_names: the keys, and the value of every key
MountNameKeys == {MOUNT_TEXT_1, MOUNT_TEXT_2}
_mount_names(value) == NIKON_Z

\* what a generator produced: the pairs it yielded, and the exception that
\* ended it ("" when it returned)
Yielded(pairs) == [raised |-> "", pairs |-> pairs]
Raised(exc) == [raised |-> exc, pairs |-> <<>>]

\* \s* from position i: the first position that holds no space
RECURSIVE SkipSpaces(_, _)
SkipSpaces(value, i) ==
    IF i <= Len(value) /\ value[i] = CH_SPACE THEN SkipSpaces(value, i + 1) ELSE i

IsNumAt(value, i) == i <= Len(value) /\ value[i].num
IsChAt(value, i, c) == i <= Len(value) /\ value[i] = c

\* re.match(r"([\d\.]+)mm\s*-\s*([\d\.]+)mm", value): <<>> when unmatched,
\* else the two groups
\* ... ([\d\.]+)mm at position n, the end of the pattern
MatchSecondNumber(value, n) ==
    IF IsNumAt(value, n) /\ IsChAt(value, n + 1, CH_m) /\ IsChAt(value, n + 2, CH_m)
    THEN <<value[1].v, value[n].v>>
    ELSE <<>>

\* ... -\s* at position d, and the rest of the pattern
MatchDash(value, d) ==
    IF IsChAt(value, d, CH_DASH)
    THEN MatchSecondNumber(value, SkipSpaces(value, d + 1))
    ELSE <<>>

MatchFocalLength(value) ==
    IF IsNumAt(value, 1) /\ IsChAt(value, 2, CH_m) /\ IsChAt(value, 3, CH_m)
    THEN MatchDash(value, SkipSpaces(value, 4))
    ELSE <<>>

\* re.match(r"f/([\d\.]+)", value): <<>> when unmatched, else the group
MatchFValue(value) ==
    IF IsChAt(value, 1, CH_f) /\ IsChAt(value, 2, CH_SLASH) /\ IsNumAt(value, 3)
    THEN <<value[3].v>>
    ELSE <<>>

\* re.findall(r"([\d\.]+)\s*(m)", value) from position i: the (number, unit)
\* matches, left to right and not overlapping.  The unit group is the one
\* character "m".
RECURSIVE FindDistances(_, _)
\* the number at position i, the unit looked for at position u
FindUnit(value, i, u) ==
    IF IsChAt(value, u, CH_m)
    THEN <<<<value[i].v, "m">>>> \o FindDistances(value, u + 1)
    ELSE FindDistances(value, i + 1)

FindDistances(value, i) ==
    IF i > Len(value) THEN <<>>
    ELSE IF value[i].num
         THEN FindUnit(value, i, SkipSpaces(value, i + 1))
         ELSE FindDistances(value, i + 1)

\* {"m": 1000, "mm": 1}[unit]
Ratio(unit) == IF unit = "m" THEN 1000 ELSE 1

\* min() of a non-empty list
Min2(a, b) == IF a <= b THEN a ELSE b
RECURSIVE MinOf(_)
MinOf(s) == IF Len(s) = 1 THEN s[1] ELSE Min2(s[1], MinOf(Tail(s)))

\* the branch of the focal length, given the match
FocalLengthTerm(match) ==
    IF match = <<>>
    THEN Raised("ScraperException")
    ELSE Yielded(<<<<IDX_MIN_FOCAL_LENGTH, match[1]>>, <<IDX_MAX_FOCAL_LENGTH, match[2]>>>>)

\* the branch of the minimum focus distance, given the distances found;
\* min() of an empty list is a ValueError
FocusDistanceTerm(distances) ==
    IF distances = <<>>
    THEN Raised("ValueError")
    ELSE Yielded(<<<<IDX_MIN_FOCUS_DISTANCE, MinOf(distances)>>>>)

\* the distances found, each multiplied by the ratio of its unit
Distances(found) == [i \in 1..Len(found) |-> found[i][1] * Ratio(found[i][2])]

\* the branch of an f-value, given the match
FValueTerm(index, match) ==
    IF match = <<>>
    THEN Raised("ScraperException")
    ELSE Yielded(<<<<index, match[1]>>>>)

recognize_nikon_z_term(key, value) ==
    IF key = KEY_KATASHIKI
    THEN IF value \in MountNameKeys
         THEN Yielded(<<<<IDX_MOUNT, _mount_names(value)>>>>)
         ELSE Raised("KeyError")
    ELSE IF key = KEY_SHOTEN_KYORI
    THEN FocalLengthTerm(MatchFocalLength(value))
    ELSE IF key = KEY_SAITAN_SATSUEI_KYORI
    THEN FocusDistanceTerm(Distances(FindDistances(value, 1)))
    ELSE IF key = KEY_SAISHO_SHIBORI
    THEN FValueTerm(IDX_MIN_F_VALUE, MatchFValue(value))
    ELSE IF key = KEY_SAIDAI_SHIBORI
    THEN FValueTerm(IDX_MAX_F_VALUE, MatchFValue(value))
    ELSE Yielded(<<>>)


(***************************************************************************)
(* Spec-table values the recognizer is run on                              *)
(***************************************************************************)
Spacings == {<<>>, <<CH_SPACE>>}
UnitText(unit) == IF unit = "m" THEN <<CH_m>> ELSE <<CH_m, CH_m>>

\* "<a>mm - <b>mm", with or without the spaces
RangeText(a, b, sp) ==
    <<Num(a), CH_m, CH_m>> \o sp \o <<CH_DASH>> \o sp \o <<Num(b), CH_m, CH_m>>
\* "<a>mm"
SingleText(a) == <<Num(a), CH_m, CH_m>>
\* "f/<n>"
FValueText(n) == <<CH_f, CH_SLASH, Num(n)>>
\* "<n> m" or "<n> mm"
MeasureText(m) == <<Num(m.n)>> \o m.sp \o UnitText(m.unit)
\* the measures, separated by the ideographic comma
RECURSIVE DistanceListText(_)
DistanceListText(ms) ==
    IF Len(ms) = 1 THEN MeasureText(ms[1])
    ELSE MeasureText(ms[1]) \o <<CH_COMMA>> \o DistanceListText(Tail(ms))

FocalLengths == {24, 70}
FValues == {4, 22}
Measures == [n : {1, 2, 300, 1500}, unit : {"m", "mm"}, sp : Spacings]
MeasureLists == UNION {[1..k -> Measures] : k \in 1..MaxDistances}

RangeTexts == {RangeText(a, b, sp) : a \in FocalLengths, b \in FocalLengths, sp \in Spacings}
SingleTexts == {SingleText(a) : a \in FocalLengths}
FValueTexts == {FValueText(n) : n \in FValues}
DistanceTexts == {DistanceListText(ms) : ms \in MeasureLists}
MountTexts == {MOUNT_TEXT_1, MOUNT_TEXT_2, MOUNT_TEXT_F}
OtherTexts == {<<>>, <<CH_DASH>>, <<Num(24)>>}

Labels == {KEY_KATASHIKI, KEY_SHOTEN_KYORI, KEY_SAITAN_SATSUEI_KYORI,
           KEY_SAISHO_SHIBORI, KEY_SAIDAI_SHIBORI, KEY_OTHER}
Values == RangeTexts \cup SingleTexts \cup FValueTexts \cup DistanceTexts
              \cup MountTexts \cup OtherTexts

NotRecognized == [raised |-> "pending", pairs |-> <<>>]


(***************************************************************************)
(* Record assembler: src/camera_lens_database/nikon_z.py                   *)
(***************************************************************************)
\* a row of the spec table: its th and td cells and the text of the first of each
Row(key, value) == [ths |-> 1, tds |-> 1, key |-> key, value |-> value]

\* a response: the exception requests.get raised ("" when none) and the
\* tables that soup.select("div#spec ~ table") finds
Response(tables) == [raised |-> "", selection |-> tables]
Unreachable == [raised |-> "ConnectionError", selection |-> <<>>]

\* the loop over the rows of the table: the pairs collected, or the exception
RECURSIVE CollectPairs(_, _)
\* the pairs r of a row are appended, or its exception ends the loop
AppendPairs(r, rows, pairs) ==
    IF r.raised # "" THEN Raised(r.raised) ELSE CollectPairs(rows, pairs \o r.pairs)

\* one row of the loop
CollectRow(row, rows, pairs) ==
    IF row.ths # 1 \/ row.tds # 1
    THEN Raised("ScraperException")
    ELSE AppendPairs(recognize_nikon_z_term(row.key, row.value), rows, pairs)

CollectPairs(rows, pairs) ==
    IF rows = <<>> THEN Yielded(pairs) ELSE CollectRow(Head(rows), Tail(rows), pairs)

\* dict(pairs): a later pair replaces an earlier one with the same key
DictOf(pairs) ==
    [k \in {pairs[i][1] : i \in 1..Len(pairs)} |->
        LET last == CHOOSE i \in 1..Len(pairs) :
                        /\ pairs[i][1] = k
                        /\ \A j \in (i + 1)..Len(pairs) : pairs[j][1] # k
        IN pairs[last][2]]

LensSpecFields == {IDX_NAME, IDX_BRAND, IDX_MOUNT, IDX_MIN_FOCAL_LENGTH,
                   IDX_MAX_FOCAL_LENGTH, IDX_MIN_F_VALUE, IDX_MAX_F_VALUE,
                   IDX_MIN_FOCUS_DISTANCE}

\* what a reader produced: the record (a sequence of one record) or nothing,
\* and the exception that ended it ("" when it returned)
Returned(spec) == [raised |-> "", lens |-> <<spec>>]
ReturnedNone == [raised |-> "", lens |-> <<>>]
Failed(exc) == [raised |-> exc, lens |-> <<>>]

\* LensSpec(name=values[IDX_NAME], ...): a missing key is a KeyError
LensSpec(values) ==
    IF LensSpecFields \subseteq DOMAIN values
    THEN Returned([name |-> values[IDX_NAME],
                   brand |-> values[IDX_BRAND],
                   mount |-> values[IDX_MOUNT],
                   min_focal_length |-> values[IDX_MIN_FOCAL_LENGTH],
                   max_focal_length |-> values[IDX_MAX_FOCAL_LENGTH],
                   min_f_value |-> values[IDX_MIN_F_VALUE],
                   max_f_value |-> values[IDX_MAX_F_VALUE],
                   min_focus_distance |-> values[IDX_MIN_FOCUS_DISTANCE]])
    ELSE Failed("KeyError")

\* the pairs read_nikon_z_lens collects from a response
PairsOf(name, resp) ==
    CollectPairs(resp.selection[1], <<<<IDX_NAME, name>>, <<IDX_BRAND, NIKON>>>>)

\* values = dict(pairs) and the record built from it, or the exception of the loop
LensOf(collected) ==
    IF collected.raised # "" THEN Failed(collected.raised)
    ELSE LensSpec(DictOf(collected.pairs))

read_nikon_z_lens(name, resp) ==
    IF resp.raised # "" THEN Failed(resp.raised)
    ELSE IF Len(resp.selection) <= 0 THEN Failed("ScraperException")
    ELSE LensOf(PairsOf(name, resp))

(***************************************************************************)
(* Spec tables the assembler is run on                                     *)
(***************************************************************************)
ROW_MOUNT == Row(KEY_KATASHIKI, MOUNT_TEXT_1)
ROW_FOCAL == Row(KEY_SHOTEN_KYORI, RangeText(24, 70, <<CH_SPACE>>))
ROW_FOCAL_TELE == Row(KEY_SHOTEN_KYORI, RangeText(70, 200, <<>>))
ROW_FOCAL_PRIME == Row(KEY_SHOTEN_KYORI, SingleText(50))
ROW_DISTANCE == Row(KEY_SAITAN_SATSUEI_KYORI,
                    DistanceListText(<<[n |-> 1, unit |-> "m", sp |-> <<CH_SPACE>>]>>))
ROW_MIN_F == Row(KEY_SAISHO_SHIBORI, FValueText(22))
ROW_MIN_F_2 == Row(KEY_SAISHO_SHIBORI, FValueText(32))
ROW_MAX_F == Row(KEY_SAIDAI_SHIBORI, FValueText(4))
ROW_OTHER == Row(KEY_OTHER, <<Num(500)>>)
ROW_MALFORMED == [ths |-> 2, tds |-> 1, key |-> KEY_OTHER, value |-> <<>>]

\* the rows a generated table takes from, in the order they appear in it
RowCatalog == <<ROW_MOUNT, ROW_FOCAL, ROW_FOCAL_TELE, ROW_DISTANCE, ROW_MIN_F,
                ROW_MIN_F_2, ROW_MAX_F, ROW_OTHER, ROW_MALFORMED>>

RECURSIVE Repeat(_, _)
Repeat(row, n) == IF n = 0 THEN <<>> ELSE <<row>> \o Repeat(row, n - 1)

\* the table with copies[i] copies of the i-th row of the catalog
RECURSIVE TableOf(_, _)
TableOf(copies, i) ==
    IF i > Len(RowCatalog) THEN <<>>
    ELSE Repeat(RowCatalog[i], copies[i]) \o TableOf(copies, i + 1)

Tables == {TableOf(copies, 1) : copies \in [1..Len(RowCatalog) -> 0..MaxCopies]}
Responses == {Response(<<t>>) : t \in Tables} \cup {Response(<<>>), Unreachable}

NAME_a == <<97>>
NAME_A == <<65>>
NAME_B == <<66>>
NAME_b == <<98>>
NAME_c == <<99>>

NotRead == [raised |-> "pending", lens |-> <<>>]


(***************************************************************************)
(* Pages, fetchers and records of a run                                    *)
(***************************************************************************)
\* "主レンズ", the text that marks a page of an accessory
PRIMARY_LENS_TEXT == TextOf(<<20027, 12524, 12531, 12474>>)

PAGE_ZOOM == Response(<<<<ROW_MOUNT, ROW_FOCAL, ROW_DISTANCE, ROW_MIN_F, ROW_MAX_F,
                         ROW_OTHER>>>>)
PAGE_TELE == Response(<<<<ROW_MOUNT, ROW_FOCAL_TELE, ROW_DISTANCE, ROW_MIN_F,
                         ROW_MAX_F>>>>)
PAGE_PRIME == Response(<<<<ROW_MOUNT, ROW_FOCAL_PRIME, ROW_DISTANCE, ROW_MIN_F,
                          ROW_MAX_F>>>>)
PAGE_ACCESSORY == Response(<<<<ROW_MOUNT, Row(KEY_OTHER, PRIMARY_LENS_TEXT)>>>>)

Pages == {"zoom", "tele", "prime", "accessory"}
PageOf(uri) ==
    CASE uri = "zoom" -> PAGE_ZOOM
      [] uri = "tele" -> PAGE_TELE
      [] uri = "prime" -> PAGE_PRIME
      [] uri = "accessory" -> PAGE_ACCESSORY

\* the keywords a fetcher leaves on the record it builds
PageKeywords(uri) == IF uri = "tele" THEN <<"tele", ",", " ", "zoom">> ELSE <<>>

\* value contains the marker text
Contains(value, marker) ==
    \E i \in 1..Len(value) :
        /\ i + Len(marker) - 1 <= Len(value)
        /\ SubSeq(value, i, i + Len(marker) - 1) = marker

HasPrimaryLensMarker(resp) ==
    /\ Len(resp.selection) > 0
    /\ \E i \in 1..Len(resp.selection[1]) :
           Contains(resp.selection[1][i].value, PRIMARY_LENS_TEXT)

\* models.Lens: the record of a lens, with its identifier and keywords
Lens(id, spec, keywords) ==
    [id |-> id, name |-> spec.name, brand |-> spec.brand, mount |-> spec.mount,
     min_focal_length |-> spec.min_focal_length,
     max_focal_length |-> spec.max_focal_length,
     min_f_value |-> spec.min_f_value, max_f_value |-> spec.max_f_value,
     min_focus_distance |-> spec.min_focus_distance, keywords |-> keywords]

\* nikon.read_lens, and the fetchers nikon.enum_equipments yields: no record
\* for the page of an accessory, else the assembled record with a freshly
\* generated identifier
\* the record of the models, built from what the assembler returned
WithIdAndKeywords(r, id, keywords) ==
    IF r.lens = <<>> THEN r ELSE Returned(Lens(id, r.lens[1], keywords))

ReadResponse(name, resp, id, keywords) ==
    IF resp.raised = "" /\ HasPrimaryLensMarker(resp) THEN ReturnedNone
    ELSE WithIdAndKeywords(read_nikon_z_lens(name, resp), id, keywords)

read_lens(name, uri, id) == ReadResponse(name, PageOf(uri), id, PageKeywords(uri))

\* utils.infer_keywords
infer_keywords(spec) ==
    IF spec.min_focal_length # spec.max_focal_length THEN <<"zoom">> ELSE <<"prime">>

(***************************************************************************)
(* The prior dataset                                                       *)
(***************************************************************************)
\* Series.to_dict() of ID indexed by Name: the items in the order the names
\* first appear, each with the ID of the last row of that name
ToDictItems(rows) ==
    LET firsts == {i \in 1..Len(rows) : \A j \in 1..(i - 1) : rows[j].Name # rows[i].Name}
        LastOf(name) == CHOOSE i \in 1..Len(rows) :
                           /\ rows[i].Name = name
                           /\ \A j \in (i + 1)..Len(rows) : rows[j].Name # name
        RECURSIVE Items(_)
        Items(i) ==
            IF i > Len(rows) THEN <<>>
            ELSE IF i \in firsts
                 THEN <<<<rows[i].Name, rows[LastOf(rows[i].Name)].ID>>>> \o Items(i + 1)
                 ELSE Items(i + 1)
    IN Items(1)

\* {k.lower(): v.lower() for k, v in ....to_dict().items()}
OrigIdMap(rows) ==
    LET items == ToDictItems(rows) IN
    DictOf([i \in 1..Len(items) |-> <<Lower(items[i][1]), Lower(items[i][2])>>])

(***************************************************************************)
(* Workers                                                                 *)
(***************************************************************************)
CpuCount == 2

\* main: _read_nikon_lens, with the loaded _orig_id_map
\* orig_id = _orig_id_map.get(lens.name.lower()), and the ID replaced by it
WithOrigId(map, l) ==
    IF Lower(l.name) \in DOMAIN map THEN [l EXCEPT !.id = map[Lower(l.name)]] ELSE l

\* what _read_nikon_lens does with what nikon.read_lens returned
ReturnDict(map, r) ==
    IF r.lens = <<>> THEN r ELSE Returned(WithOrigId(map, r.lens[1]))

_read_nikon_lens(map, params, id) ==
    ReturnDict(map, read_lens(params.name, params.uri, id))

\* what the worker of a run handler does with one task
Worker(handler, map, params, id) ==
    IF handler = "main" THEN _read_nikon_lens(map, params, id)
    ELSE read_lens(params.name, params.uri, id)

\* an exception of a task is swallowed where it should come out of the pool
NoneRaisedSwallowed(res) == TRUE

\* the pool, or the loop, hands its list back only when no task raised: the
\* exception of a task comes out of it instead
NoneRaised(res) == \A i \in 1..Len(res) : res[i].raised = ""

\* main runs the tasks itself when max_workers is 1
Sequential(handler, workers) == handler = "main" /\ workers = 1

\* the size of the pool
PoolSize(handler, workers) ==
    IF handler = "main"
    THEN IF workers <= 0 THEN CpuCount ELSE workers
    ELSE IF 0 < workers THEN workers ELSE CpuCount

\* the results in the order the tasks completed
ResultListAsCompleted(res) == [k \in 1..Len(finished) |-> res[finished[k]].lens]

\* the list a finished pool, or the finished loop, hands back: one entry per
\* task, in the order of the task list
ResultList(res) == [i \in 1..Len(res) |-> res[i].lens]

RECURSIVE DropNone(_)
DropNone(list) ==
    IF list = <<>> THEN <<>>
    ELSE IF Head(list) = <<>> THEN DropNone(Tail(list))
    ELSE <<Head(list)>> \o DropNone(Tail(list))

\* main: specs = [spec for spec in spec_or_nones if spec is not None];
\* fetch: specs = parallel(...)
Collected(handler, res) ==
    IF handler = "main" THEN DropNone(ResultList(res)) ELSE ResultList(res)


(***************************************************************************)
(* Reconciliation: src/cldb/cli/fetch.py                                   *)
(***************************************************************************)
\* text.split(", "): the items between the occurrences of ", "
RECURSIVE SplitCommaSpace(_, _)
SplitCommaSpace(text, item) ==
    IF text = <<>> THEN <<item>>
    ELSE IF Len(text) >= 2 /\ text[1] = "," /\ text[2] = " "
         THEN <<item>> \o SplitCommaSpace(SubSeq(text, 3, Len(text)), <<>>)
         ELSE SplitCommaSpace(Tail(text), Append(item, text[1]))

\* (kw for kw in items if kw)
RECURSIVE NonEmpty(_)
NonEmpty(items) ==
    IF items = <<>> THEN <<>>
    ELSE IF Head(items) = <<>> THEN NonEmpty(Tail(items))
    ELSE <<Head(items)>> \o NonEmpty(Tail(items))

\* ",".join(items)
RECURSIVE JoinComma(_)
JoinComma(items) ==
    IF items = <<>> THEN <<>>
    ELSE IF Len(items) = 1 THEN items[1]
    ELSE items[1] \o <<",">> \o JoinComma(Tail(items))

\* the keywords of a record after the inferred ones were added
KeywordsWith(keywords, text) ==
    IF keywords # <<>>
    THEN JoinComma(NonEmpty([i \in 1..Len(keywords) |-> <<keywords[i]>>]
                            \o SplitCommaSpace(text, <<>>)))
    ELSE text

\* the body of the loop without the reuse of the already assigned ID
ReconcileOneKeepId(spec, map) ==
    [spec EXCEPT !.keywords = KeywordsWith(infer_keywords(spec), spec.keywords)]

\* the body of the loop over specs, for one record
ReconcileOne(spec, map) ==
    [spec EXCEPT !.id = IF Lower(spec.name) \in DOMAIN map
                        THEN map[Lower(spec.name)]
                        ELSE spec.id,
                 !.keywords = KeywordsWith(infer_keywords(spec), spec.keywords)]

\* the loop over specs; None has no attribute name
Reconciled(list, map) ==
    IF \E i \in 1..Len(list) : list[i] = <<>>
    THEN [raised |-> "AttributeError", specs |-> <<>>]
    ELSE [raised |-> "",
          specs |-> [i \in 1..Len(list) |-> <<ReconcileOne(list[i][1], map)>>]]

(***************************************************************************)
(* Sorting: DataFrame.sort_values(by=..., kind="mergesort", key=...)        *)
(***************************************************************************)
KEY_BRAND == "Brand"
KEY_MOUNT == "Mount"
KEY_MIN_FOCAL_LENGTH == "Min. Focal Length"
KEY_MAX_FOCAL_LENGTH == "Max. Focal Length"
KEY_NAME == "Name"

\* a text of one line is the sequence of that line
STR_COLUMNS == {<<KEY_BRAND>>, <<KEY_MOUNT>>, <<KEY_NAME>>}
sort_keys == <<KEY_BRAND, KEY_MOUNT, KEY_MIN_FOCAL_LENGTH, KEY_MAX_FOCAL_LENGTH, KEY_NAME>>

\* str(c) of the Series of a column: the lines of its rows, then the line
\* that gives its name and dtype
SeriesStr(column) == <<"0    ...", "Name: " \o column \o ", dtype: object">>

Cell(row, column) ==
    CASE column = KEY_BRAND -> row.brand
      [] column = KEY_MOUNT -> row.mount
      [] column = KEY_MIN_FOCAL_LENGTH -> row.min_focal_length
      [] column = KEY_MAX_FOCAL_LENGTH -> row.max_focal_length
      [] column = KEY_NAME -> row.name

\* key=lambda c: c.str.lower() if str(c) in STR_COLUMNS else c, on one cell
SortKey(column, cell) ==
    IF SeriesStr(column) \in STR_COLUMNS THEN Lower(cell) ELSE cell

\* the order of the cells of a column: numbers as numbers, strings as strings
CellLess(column, x, y) ==
    IF column \in {KEY_MIN_FOCAL_LENGTH, KEY_MAX_FOCAL_LENGTH} THEN x < y
    ELSE StrLess(x, y)

\* the order of two rows by the key of one column
KeyLess(column, r1, r2) ==
    CellLess(column, SortKey(column, Cell(r1, column)), SortKey(column, Cell(r2, column)))

RECURSIVE RowLess(_, _, _)
RowLess(by, r1, r2) ==
    IF by = <<>> THEN FALSE
    ELSE IF KeyLess(Head(by), r1, r2) THEN TRUE
    ELSE IF KeyLess(Head(by), r2, r1) THEN FALSE
    ELSE RowLess(Tail(by), r1, r2)

\* row is placed behind every row that is not greater: the sort is stable
RECURSIVE InsertStable(_, _, _)
InsertStable(sorted, row, by) ==
    IF sorted = <<>> THEN <<row>>
    ELSE IF RowLess(by, row, Head(sorted)) THEN <<row>> \o sorted
    ELSE <<Head(sorted)>> \o InsertStable(Tail(sorted), row, by)

RECURSIVE MergeSort(_, _)
MergeSort(rows, by) ==
    IF rows = <<>> THEN <<>>
    ELSE InsertStable(MergeSort(SubSeq(rows, 1, Len(rows) - 1), by), rows[Len(rows)], by)

\* pd.DataFrame(rows).sort_values(by=by, ...): a frame of no rows has no
\* columns, and sorting it by a column is a KeyError
sort_values(list, by) ==
    IF list = <<>>
    THEN [raised |-> "KeyError", rows |-> <<>>]
    ELSE [raised |-> "", rows |-> MergeSort([i \in 1..Len(list) |-> list[i][1]], by)]


(***************************************************************************)
(* Inputs of a run                                                         *)
(***************************************************************************)
ID_X7 == <<88, 55>>    \* "X7"
ID_x7 == <<120, 55>>   \* "x7"
ID_y8 == <<121, 56>>   \* "y8"
ID_z9 == <<122, 57>>   \* "z9"

\* the identifiers a run can generate for the record of the i-th task:
\* "n<i>a" and "n<i>b"
FreshIds(i) == {<<110, 48 + i, 97>>, <<110, 48 + i, 98>>}

Workers == {0, 1, 2}
Handlers == {"main", "fetch"}

TaskCatalog == {[name |-> NAME_a, uri |-> "zoom"],
                [name |-> NAME_B, uri |-> "zoom"],
                [name |-> NAME_b, uri |-> "tele"],
                [name |-> NAME_c, uri |-> "accessory"],
                [name |-> NAME_A, uri |-> "prime"]}
\* the task lists: every product is listed once
TaskLists ==
    UNION {{l \in [1..k -> TaskCatalog] : \A i, j \in 1..k : i # j => l[i] # l[j]} :
           k \in 1..MaxTasks}

PriorRow(name, id, keywords) == [Name |-> name, ID |-> id, Keywords |-> keywords]
PRIOR_EMPTY == <<>>
PRIOR_UPPER == <<PriorRow(NAME_A, ID_X7, <<"fav">>)>>
PRIOR_LOWER == <<PriorRow(NAME_a, ID_x7, <<"zoom">>), PriorRow(NAME_b, ID_y8, <<>>)>>
PRIOR_TWICE == <<PriorRow(NAME_A, ID_x7, <<>>), PriorRow(NAME_a, ID_y8, <<>>),
                 PriorRow(NAME_A, ID_z9, <<>>)>>
Priors == {PRIOR_EMPTY, PRIOR_UPPER, PRIOR_LOWER, PRIOR_TWICE}

NotWritten == [written |-> FALSE, rows |-> <<>>]
NoFirstOutput == [written |-> FALSE, rows |-> <<>>, exit_code |-> -1]
NoTerm == [key |-> KEY_OTHER, value |-> <<>>]
NoPage == Response(<<>>)

(***************************************************************************)
(* The run handlers: main (src/camera_lens_database/fetch.py) and fetch    *)
(* (src/cldb/cli/fetch.py)                                                 *)
(***************************************************************************)
Tasks == 1..Len(lens_info)

\* the identifier is generated when the record is built
IdsFor(i) ==
    IF read_lens(lens_info[i].name, lens_info[i].uri, <<>>).lens # <<>>
    THEN FreshIds(i)
    ELSE {<<>>}

InitRun ==
    /\ entry \in Handlers
    /\ num_workers \in Workers
    /\ orig_data \in Priors
    /\ lens_info \in TaskLists
    /\ pc = "start"
    /\ orig_id_map = <<>>
    /\ status = [i \in 1..Len(lens_info) |-> "pending"]
    /\ results = [i \in 1..Len(lens_info) |-> NotRead]
    /\ generated = [i \in 1..Len(lens_info) |-> <<>>]
    /\ finished = <<>>
    /\ specs = <<>>
    /\ df = <<>>
    /\ output = NotWritten
    /\ exit_code = -1
    /\ run = 1
    /\ first_output = NoFirstOutput

Init ==
    /\ InitRun
    /\ term = NoTerm
    /\ recognized = NotRecognized
    /\ page = NoPage
    /\ lens = NotRead

\* load the already assigned IDs
Load ==
    /\ pc = "start"
    /\ orig_id_map' = OrigIdMap(orig_data)
    /\ pc' = "fetching"
    /\ UNCHANGED <<entry, num_workers, orig_data, lens_info, status, results, specs,
                   df, output, exit_code, run, first_output, generated, finished>>

\* main with max_workers 1: the next task of the list comprehension
SeqRead ==
    /\ pc = "fetching"
    /\ Sequential(entry, num_workers)
    /\ \E i \in Tasks :
        /\ status[i] = "pending"
        /\ \A j \in 1..(i - 1) : status[j] = "done"
        /\ \E id \in IdsFor(i) :
            /\ results' = [results EXCEPT ![i] = Worker(entry, orig_id_map, lens_info[i], id)]
            /\ generated' = [generated EXCEPT ![i] = id]
            /\ finished' = Append(finished, i)
            /\ status' = [status EXCEPT ![i] = "done"]
            /\ pc' = IF results'[i].raised # "" THEN "failed" ELSE pc
    /\ UNCHANGED <<entry, num_workers, orig_data, lens_info, orig_id_map, specs, df,
                   output, exit_code, run, first_output>>

\* the pool hands the next task of the list to a free worker
Dispatch(i) ==
    /\ pc = "fetching"
    /\ ~Sequential(entry, num_workers)
    /\ status[i] = "pending"
    /\ \A j \in 1..(i - 1) : status[j] # "pending"
    /\ Cardinality({j \in Tasks : status[j] = "running"}) < PoolSize(entry, num_workers)
    /\ status' = [status EXCEPT ![i] = "running"]
    /\ UNCHANGED <<entry, num_workers, orig_data, lens_info, pc, orig_id_map, results,
                   specs, df, output, exit_code, run, first_output, generated, finished>>

\* a worker finishes its task
Complete(i) ==
    /\ pc = "fetching"
    /\ status[i] = "running"
    /\ \E id \in IdsFor(i) :
        /\ results' = [results EXCEPT ![i] = Worker(entry, orig_id_map, lens_info[i], id)]
        /\ generated' = [generated EXCEPT ![i] = id]
    /\ finished' = Append(finished, i)
    /\ status' = [status EXCEPT ![i] = "done"]
    /\ UNCHANGED <<entry, num_workers, orig_data, lens_info, pc, orig_id_map, specs, df,
                   output, exit_code, run, first_output>>

\* the exception of a task comes out of the pool
Raise ==
    /\ pc = "fetching"
    /\ ~Sequential(entry, num_workers)
    /\ \E i \in Tasks : status[i] = "done" /\ results[i].raised # ""
    /\ pc' = "failed"
    /\ UNCHANGED <<entry, num_workers, orig_data, lens_info, orig_id_map, status, results,
                   specs, df, output, exit_code, run, first_output, generated, finished>>

\* every task returned: the result list
Collect ==
    /\ pc = "fetching"
    /\ \A i \in Tasks : status[i] = "done"
    /\ NoneRaised(results)
    /\ specs' = Collected(entry, results)
    /\ pc' = IF entry = "fetch" THEN "collected" ELSE "reconciled"
    /\ UNCHANGED <<entry, num_workers, orig_data, lens_info, orig_id_map, status, results,
                   df, output, exit_code, run, first_output, generated, finished>>

\* the reconciled list, or the list as it was when the loop raised
ReconciledOr(r, list) == IF r.raised # "" THEN list ELSE r.specs

\* fetch: reuse the already assigned IDs and infer the keywords
Reconcile ==
    /\ pc = "collected"
    /\ specs' = ReconciledOr(Reconciled(specs, orig_id_map), specs)
    /\ pc' = IF \E i \in 1..Len(specs) : specs[i] = <<>> THEN "failed" ELSE "reconciled"
    /\ UNCHANGED <<entry, num_workers, orig_data, lens_info, orig_id_map, status, results,
                   df, output, exit_code, run, first_output, generated, finished>>

\* sort the result
Sort ==
    /\ pc = "reconciled"
    /\ df' = sort_values(specs, sort_keys).rows
    /\ pc' = IF specs = <<>> THEN "failed" ELSE "sorted"
    /\ UNCHANGED <<entry, num_workers, orig_data, lens_info, orig_id_map, status, results,
                   specs, output, exit_code, run, first_output, generated, finished>>

\* write the table to the destination
Write ==
    /\ pc = "sorted"
    /\ output' = [written |-> TRUE, rows |-> df]
    /\ exit_code' = 0
    /\ pc' = "done"
    /\ UNCHANGED <<entry, num_workers, orig_data, lens_info, orig_id_map, status, results,
                   specs, df, run, first_output, generated, finished>>

\* except Exception: print the trace and exit with 1
Handler ==
    /\ pc = "failed"
    /\ exit_code' = 1
    /\ pc' = "exited"
    /\ UNCHANGED <<entry, num_workers, orig_data, lens_info, orig_id_map, status, results,
                   specs, df, output, run, first_output, generated, finished>>

\* the command is run once more on the same prior dataset and the same pages
Rerun ==
    /\ run = 1
    /\ pc \in {"done", "exited"}
    /\ first_output' = [written |-> output.written, rows |-> output.rows,
                        exit_code |-> exit_code]
    /\ run' = 2
    /\ pc' = "start"
    /\ orig_id_map' = <<>>
    /\ status' = [i \in 1..Len(lens_info) |-> "pending"]
    /\ results' = [i \in 1..Len(lens_info) |-> NotRead]
    /\ generated' = [i \in 1..Len(lens_info) |-> <<>>]
    /\ finished' = <<>>
    /\ specs' = <<>>
    /\ df' = <<>>
    /\ output' = NotWritten
    /\ exit_code' = -1
    /\ UNCHANGED <<entry, num_workers, orig_data, lens_info>>

RunStep ==
    \/ Load
    \/ SeqRead
    \/ \E i \in Tasks : Dispatch(i)
    \/ \E i \in Tasks : Complete(i)
    \/ Raise
    \/ Collect
    \/ Reconcile
    \/ Sort
    \/ Write
    \/ Handler
    \/ Rerun

Next == RunStep /\ UNCHANGED <<term, recognized, page, lens>>

Spec == Init /\ [][Next]_vars


(***************************************************************************)
(* The term recognizer and the record assembler on their own               *)
(***************************************************************************)
\* no run is going on
IdleRun ==
    /\ entry = "main"
    /\ num_workers = 1
    /\ orig_data = <<>>
    /\ lens_info = <<>>
    /\ pc = "idle"
    /\ orig_id_map = <<>>
    /\ status = <<>>
    /\ results = <<>>
    /\ generated = <<>>
    /\ finished = <<>>
    /\ specs = <<>>
    /\ df = <<>>
    /\ output = NotWritten
    /\ exit_code = -1
    /\ run = 1
    /\ first_output = NoFirstOutput

InitTerm ==
    /\ IdleRun
    /\ term \in [key : Labels, value : Values]
    /\ recognized = NotRecognized
    /\ page = NoPage
    /\ lens = NotRead

\* recognize_nikon_z_term(key=..., value=...) is run to its end
Recognize ==
    /\ recognized = NotRecognized
    /\ recognized' = recognize_nikon_z_term(term.key, term.value)
    /\ UNCHANGED <<term, page, lens>>
    /\ UNCHANGED runVars

NextTerm == Recognize

SpecTerm == InitTerm /\ [][NextTerm]_vars

InitPage ==
    /\ IdleRun
    /\ term = NoTerm
    /\ recognized = NotRecognized
    /\ page \in Responses
    /\ lens = NotRead

\* read_nikon_z_lens(name, uri) on the response of uri
Assemble ==
    /\ lens = NotRead
    /\ lens' = read_nikon_z_lens(NAME_a, page)
    /\ UNCHANGED <<term, recognized, page>>
    /\ UNCHANGED runVars

NextPage == Assemble

SpecPage == InitPage /\ [][NextPage]_vars


(***************************************************************************)
(* Properties                                                              *)
(***************************************************************************)
Terminated == pc \in {"done", "exited"}

\* the names a prior dataset knows, case-folded
KnownNames(rows) == {Lower(rows[i].Name) : i \in 1..Len(rows)}

\* C1 (as stated): every row of the output whose case-folded name is a name
\* of the prior dataset carries exactly an identifier the prior dataset
\* holds for that name, upper-case characters included.
C1_IdentityStability ==
    output.written =>
        \A k \in 1..Len(output.rows) :
            Lower(output.rows[k].name) \in KnownNames(orig_data) =>
                \E i \in 1..Len(orig_data) :
                    /\ Lower(orig_data[i].Name) = Lower(output.rows[k].name)
                    /\ output.rows[k].id = orig_data[i].ID

\* a row with its identifier blanked when the prior dataset does not know its name
MaskNew(row, rows) ==
    IF Lower(row.name) \in KnownNames(rows) THEN row ELSE [row EXCEPT !.id = <<>>]
MaskNewIds(table, rows) == [k \in 1..Len(table) |-> MaskNew(table[k], rows)]

\* C2 (as stated): the second run on the same prior dataset and the same
\* pages writes exactly the table the first run wrote.
C2_Idempotence ==
    (run = 2 /\ Terminated) =>
        /\ exit_code = first_output.exit_code
        /\ output.written = first_output.written
        /\ output.rows = first_output.rows

\* C2 (amended): the second run ends as the first run did and writes the
\* same rows in the same order with the same keywords, and the same
\* identifier in every row whose case-folded name the prior dataset knows;
\* only the identifiers generated for unknown names can differ.
C2_IdempotenceUpToNewIds ==
    (run = 2 /\ Terminated) =>
        /\ exit_code = first_output.exit_code
        /\ output.written = first_output.written
        /\ MaskNewIds(output.rows, orig_data) = MaskNewIds(first_output.rows, orig_data)

\* two runs wrote tables that differ, with a known and an unknown name in them
C2_Witness ==
    /\ run = 2
    /\ pc = "done"
    /\ output.rows # first_output.rows
    /\ \E k \in 1..Len(output.rows) : Lower(output.rows[k].name) \in KnownNames(orig_data)
    /\ \E k \in 1..Len(output.rows) : Lower(output.rows[k].name) \notin KnownNames(orig_data)

\* the recognized pairs of the assembled page, when every row was recognized
PagePairs == PairsOf(NAME_a, page)

\* C3 (as stated): a page whose recognized pairs cover fewer attributes than
\* the record requires, or are more than the record requires, is excluded as
\* "not a product": the assembler returns no record and raises nothing.
C3_CompletenessGate ==
    (/\ lens # NotRead
     /\ page.raised = ""
     /\ Len(page.selection) > 0
     /\ PagePairs.raised = ""
     /\ \/ Cardinality(DOMAIN DictOf(PagePairs.pairs)) < Cardinality(LensSpecFields)
        \/ Len(PagePairs.pairs) > Cardinality(LensSpecFields))
    => lens = ReturnedNone

\* the words of a keyword text
Words(text) == {text[i] : i \in 1..Len(text)} \ {",", " "}
\* the tags of a keyword text, as the reconciliation step splits it
Tags(text) == {t \in {SplitCommaSpace(text, <<>>)[i] :
                          i \in 1..Len(SplitCommaSpace(text, <<>>))} : t # <<>>}
\* the keywords the prior dataset holds for a name
PriorWords(rows, name) ==
    UNION {Words(rows[i].Keywords) : i \in {j \in 1..Len(rows) : Lower(rows[j].Name) = Lower(name)}}

\* C4 (as stated): after the reconciliation step the keywords of a record
\* hold every keyword the record carried before and every keyword the prior
\* dataset holds for its name, no tag is merged into another one, and no
\* keyword is written twice.
C4_KeywordMonotonicity ==
    (entry = "fetch" /\ pc \in {"reconciled", "sorted", "done"}) =>
        \A i \in 1..Len(specs) :
            LET before == results[i].lens[1].keywords
                after == specs[i][1].keywords
            IN /\ Words(before) \subseteq Words(after)
               /\ PriorWords(orig_data, specs[i][1].name) \subseteq Words(after)
               /\ Tags(before) \subseteq Tags(after)
               /\ \A j, k \in 1..Len(after) :
                      (j # k /\ after[j] \notin {",", " "}) => after[j] # after[k]

\* C5 (as stated): of two rows of the written table with case-insensitively
\* equal brand and mount and equal focal lengths, the one with the
\* case-insensitively smaller name comes first.
C5_SortDeterminism ==
    output.written =>
        \A i, j \in 1..Len(output.rows) :
            LET r1 == output.rows[i]
                r2 == output.rows[j]
            IN (/\ i < j
                /\ Lower(r1.brand) = Lower(r2.brand)
                /\ Lower(r1.mount) = Lower(r2.mount)
                /\ r1.min_focal_length = r2.min_focal_length
                /\ r1.max_focal_length = r2.max_focal_length)
               => ~StrLess(Lower(r2.name), Lower(r1.name))


\* what a run on the given inputs comes to when the tasks are read one after
\* the other in the order of the task list, ids[i] being the identifier
\* generated for the i-th task
\* the results of the first n tasks, read one after the other
RECURSIVE ReadInOrder(_, _, _, _, _)
ReadInOrder(handler, map, tasks, ids, n) ==
    IF n = 0 THEN <<>>
    ELSE Append(ReadInOrder(handler, map, tasks, ids, n - 1),
                Worker(handler, map, tasks[n], ids[n]))

ReferenceRun(handler, tasks, rows, ids) ==
    LET map == OrigIdMap(rows)
        res == ReadInOrder(handler, map, tasks, ids, Len(tasks))
        all == [i \in 1..Len(res) |-> res[i].lens]
        list == IF handler = "main" THEN DropNone(all) ELSE all
        Failure(l) == [written |-> FALSE, rows |-> <<>>, exit_code |-> 1, list |-> l]
    IN IF \E i \in 1..Len(tasks) : res[i].raised # "" THEN Failure(<<>>)
       ELSE IF handler = "fetch" /\ \E i \in 1..Len(list) : list[i] = <<>> THEN Failure(list)
       ELSE IF list = <<>> THEN Failure(list)
       ELSE LET rec == IF handler = "fetch" THEN Reconciled(list, map).specs ELSE list
            IN [written |-> TRUE, rows |-> sort_values(rec, sort_keys).rows,
                exit_code |-> 0, list |-> list]

Reference == ReferenceRun(entry, lens_info, orig_data, generated)

Fetched(i) == read_lens(lens_info[i].name, lens_info[i].uri, <<>>)

\* C8 (as stated): a run in which no task fails, some tasks giving a record
\* and the others "not a product", does not fail and writes exactly one row
\* for every task that gave a record.
C8_NotAProductIsolation ==
    (Terminated /\ \A i \in Tasks : Fetched(i).raised = "") =>
        /\ exit_code = 0
        /\ output.written
        /\ Len(output.rows) = Cardinality({i \in Tasks : Fetched(i).lens # <<>>})

GrammarLabels == {KEY_KATASHIKI, KEY_SHOTEN_KYORI, KEY_SAITAN_SATSUEI_KYORI,
                  KEY_SAISHO_SHIBORI, KEY_SAIDAI_SHIBORI}

\* C9 (as stated): for the focal-length label "<a>mm - <b>mm" gives min a and
\* max b, "<a>mm" alone gives min a and max a; a label outside the grammar
\* gives no attribute and no error.
C9_FocalLengthRecognition ==
    recognized # NotRecognized =>
        /\ \A a, b \in FocalLengths, sp \in Spacings :
               (term.key = KEY_SHOTEN_KYORI /\ term.value = RangeText(a, b, sp)) =>
                   recognized = Yielded(<<<<IDX_MIN_FOCAL_LENGTH, a>>,
                                          <<IDX_MAX_FOCAL_LENGTH, b>>>>)
        /\ \A a \in FocalLengths :
               (term.key = KEY_SHOTEN_KYORI /\ term.value = SingleText(a)) =>
                   recognized = Yielded(<<<<IDX_MIN_FOCAL_LENGTH, a>>,
                                          <<IDX_MAX_FOCAL_LENGTH, a>>>>)
        /\ term.key \notin GrammarLabels => recognized = Yielded(<<>>)

\* a listed distance in millimetres
Millimetres(m) == IF m.unit = "m" THEN m.n * 1000 ELSE m.n

\* C10 (as stated): for the minimum-focus-distance label the attribute is
\* the least of the listed distances, each converted to millimetres; a value
\* without a distance is reported as a failure of the scraper.
C10_MinimumFocusDistance ==
    (recognized # NotRecognized /\ term.key = KEY_SAITAN_SATSUEI_KYORI) =>
        /\ \A ms \in MeasureLists :
               term.value = DistanceListText(ms) =>
                   recognized = Yielded(<<<<IDX_MIN_FOCUS_DISTANCE,
                                            MinOf([i \in 1..Len(ms) |-> Millimetres(ms[i])])>>>>)
        /\ term.value \in OtherTexts \cup FValueTexts \cup MountTexts =>
               recognized.raised = "ScraperException"


====
